---- MODULE Spec2Model ----
(***************************************************************************)
(* A model of nlp/pipeline/data/data_pack.py: the DataPack entry store     *)
(* (annotations, links, groups), its DataIndex (basic, link, group and     *)
(* coverage indexes) and the query resolver get_entries.                   *)
(*                                                                         *)
(* Entries are records of one shape,                                       *)
(*   [kind, type, comp, tid, b, e, parent, child, members]                 *)
(* kind "A" (Annotation), "L" (Link) or "G" (Group); type is the class     *)
(* name; b, e are span.begin, span.end of an annotation; parent, child     *)
(* are tids of a link's endpoints; members the member tids of a group.     *)
(* A tid is a pair <<class name, n>>: the class-qualified id string.       *)
(*                                                                         *)
(* A defaultdict(set) is a function with an explicit domain read through   *)
(* Get, which yields {} for a missing key; a key that only a read created  *)
(* (with an empty set) is not kept, no code here iterates those keys.      *)
(***************************************************************************)
EXTENDS Integers, Sequences, FiniteSets, TLC

\* ---------------------------------------------------------------- bounds
MaxPos == 1
MaxEntries == 3
MaxKeys == 1
MaxIters == 2

\* ------------------------------------------------- the ontology (types)
Components == {"c1", "c2"}
AnnotationTypes == {"Sentence", "Token"}
LinkTypes == {"Link"}
GroupTypes == {"Group"}
Classes == {"Entry", "Annotation", "Sentence", "Token", "Link", "Group"}

NoTid == <<"None", -1>>

issubclass(c, d) ==
    \/ c = d
    \/ d = "Entry" /\ c \in Classes
    \/ d = "Annotation" /\ c \in AnnotationTypes
    \/ d = "Link" /\ c \in LinkTypes
    \/ d = "Group" /\ c \in GroupTypes

isinstance(entry, d) == issubclass(entry.type, d)

IsAnnotation(entry) == isinstance(entry, "Annotation")
IsLink(entry) == isinstance(entry, "Link")
IsGroup(entry) == isinstance(entry, "Group")

\* Entry.__init__ with an explicit id, Entry.set_tid: the id is qualified by
\* the class name.
set_tid(entry, n) == [entry EXCEPT !.tid = <<entry.type, n>>]

\* Annotation.__eq__: span, type and component. Link.__eq__: parent, child and
\* type. Group.__eq__: member set and type.
EntryEq(x, y) ==
    /\ x.type = y.type
    /\ \/ IsAnnotation(x) /\ x.comp = y.comp /\ x.b = y.b /\ x.e = y.e
       \/ IsLink(x) /\ x.parent = y.parent /\ x.child = y.child
       \/ IsGroup(x) /\ x.members = y.members

\* Annotation.__lt__: the order of the spans, by (begin, end).
AnnotationLt(x, y) == x.b < y.b \/ (x.b = y.b /\ x.e < y.e)

\* ------------------------------------------------------ maps and lists
EmptyMap == << >>

Get(f, k) == IF k \in DOMAIN f THEN f[k] ELSE {}

Put(f, k, v) == [x \in DOMAIN f \cup {k} |-> IF x = k THEN v ELSE f[x]]

AddTo(f, k, id) == Put(f, k, Get(f, k) \cup {id})

Range(s) == {s[i] : i \in DOMAIN s}

InsertAt(s, i, x) == SubSeq(s, 1, i) \o <<x>> \o SubSeq(s, i + 1, Len(s))

\* bisect.bisect_left / bisect_right on the list of a SortedList: lo and hi
\* count elements (0-based), s is 1-based.
RECURSIVE bisect_left_loop(_, _, _, _)
bisect_left_loop(s, x, lo, hi) ==
    IF lo >= hi THEN lo
    ELSE LET mid == (lo + hi) \div 2
         IN  IF AnnotationLt(s[mid + 1], x)
             THEN bisect_left_loop(s, x, mid + 1, hi)
             ELSE bisect_left_loop(s, x, lo, mid)

bisect_left(s, x) == bisect_left_loop(s, x, 0, Len(s))

RECURSIVE bisect_right_loop(_, _, _, _)
bisect_right_loop(s, x, lo, hi) ==
    IF lo >= hi THEN lo
    ELSE LET mid == (lo + hi) \div 2
         IN  IF AnnotationLt(x, s[mid + 1])
             THEN bisect_right_loop(s, x, lo, mid)
             ELSE bisect_right_loop(s, x, mid + 1, hi)

bisect_right(s, x) == bisect_right_loop(s, x, 0, Len(s))

\* SortedList.add: insort to the right of the elements that compare equal.
SortedListAddAppend(s, x) == Append(s, x)

SortedListAdd(s, x) == InsertAt(s, bisect_right(s, x), x)

\* SortedList.index / __contains__: the element at the bisect_left position is
\* the only one compared with ==. 0 when the value is not found there.
SortedListIndex(s, x) ==
    LET idx == bisect_left(s, x)
    IN  IF idx < Len(s) /\ EntryEq(s[idx + 1], x) THEN idx + 1 ELSE 0

\* list.index / __contains__: the first element equal to x, 0 when none.
ListIndex(s, x) ==
    IF \E i \in DOMAIN s : EntryEq(s[i], x)
    THEN CHOOSE i \in DOMAIN s :
             EntryEq(s[i], x) /\ \A j \in 1..(i - 1) : ~EntryEq(s[j], x)
    ELSE 0

None == "None"

\* range_annotation = None
NoRange == [kind |-> "A", type |-> None, comp |-> None, tid |-> NoTid,
            b |-> 0, e |-> 0, parent |-> NoTid, child |-> NoTid,
            members |-> {}]

\* ------------------------------------------- get_entries, one next() at a time
\* get_entries is a generator function: the call runs nothing of its body,
\* the first next() runs it up to the first yield, every later next() up to
\* the following yield or to its end. An element of iters is one generator
\* object: pc is its position ("none": no object; "new": called, not
\* started; "running": suspended at the yield; "done": returned or raised),
\* slice, valid_id and pos are the locals of its frame, out is what it has
\* yielded, and alone is what the call yields when it is consumed on its own
\* at once, as the caller would see it at the call.
Iters == 1..MaxIters

NoIter ==
    [pc |-> "none", entry_type |-> None, range_annotation |-> NoRange,
     component |-> None, slice |-> << >>, live |-> FALSE, valid_id |-> {},
     pos |-> 1, out |-> << >>, err |-> "",
     alone |-> [yield |-> << >>, found |-> {}, err |-> ""]]

\* ------------------------------------------------------------ the state
VARIABLES
    annotations,            \* DataPack.annotations, a SortedList
    links,                  \* DataPack.links
    groups,                 \* DataPack.groups
    internal_metas,         \* class name -> InternalMeta
    entry_index,            \* tid -> entry
    type_index,             \* class name -> set of tids
    component_index,        \* component -> set of tids
    group_index,            \* member tid -> set of group tids
    link_index,             \* "child_index" / "parent_index" -> tid -> set
    coverage_index,         \* <<outer, inner>> -> outer tid -> set of tids
    group_index_switch,
    link_index_switch,
    coverage_index_switch,  \* <<outer, inner>> -> TRUE
    iters                   \* the generators of get_entries the caller holds

store == <<annotations, links, groups>>
basic == <<entry_index, type_index, component_index>>
structural == <<group_index, link_index, group_index_switch, link_index_switch>>
coverage == <<coverage_index, coverage_index_switch>>
vars == <<annotations, links, groups, internal_metas, entry_index, type_index,
          component_index, group_index, link_index, coverage_index,
          group_index_switch, link_index_switch, coverage_index_switch,
          iters>>

InternalMeta == [id_counter |-> 0, fields_created |-> EmptyMap,
                 default_component |-> "None"]

Meta(name) == IF name \in DOMAIN internal_metas THEN internal_metas[name]
              ELSE InternalMeta

Init ==
    /\ annotations = << >>
    /\ links = << >>
    /\ groups = << >>
    /\ internal_metas = EmptyMap
    /\ entry_index = EmptyMap
    /\ type_index = EmptyMap
    /\ component_index = EmptyMap
    /\ group_index = EmptyMap
    /\ link_index = EmptyMap
    /\ coverage_index = EmptyMap
    /\ group_index_switch = FALSE
    /\ link_index_switch = FALSE
    /\ coverage_index_switch = EmptyMap
    /\ iters = [i \in Iters |-> NoIter]

\* ------------------------------------------------------------ DataIndex
\* update_link_index that files a link under its child only.
RECURSIVE update_link_index_child_only(_, _)
update_link_index_child_only(lx, ls) ==
    LET lx0 == [k \in {"child_index", "parent_index"} |->
                   IF k \in DOMAIN lx THEN lx[k] ELSE EmptyMap]
    IN  IF ls = << >> THEN lx0
        ELSE update_link_index_child_only(
                 [lx0 EXCEPT !["child_index"] =
                                 AddTo(@, Head(ls).child, Head(ls).tid)],
                 Tail(ls))

\* update_link_index that starts from an empty index: what it leaves is the
\* index of the links passed alone.
update_link_index_rebuild(lx, ls) ==
    [k \in {"child_index", "parent_index"} |->
        IF k = "child_index"
        THEN [a \in {l.child : l \in Range(ls)} |->
                 {l.tid : l \in {x \in Range(ls) : x.child = a}}]
        ELSE [a \in {l.parent : l \in Range(ls)} |->
                 {l.tid : l \in {x \in Range(ls) : x.parent = a}}]]

\* update_link_index(links) on the index lx.
RECURSIVE update_link_index(_, _)
update_link_index(lx, ls) ==
    LET lx0 == [k \in {"child_index", "parent_index"} |->
                   IF k \in DOMAIN lx THEN lx[k] ELSE EmptyMap]
    IN  IF ls = << >> THEN lx0
        ELSE LET link == Head(ls)
                 lx1 == [lx0 EXCEPT
                           !["child_index"] = AddTo(@, link.child, link.tid),
                           !["parent_index"] = AddTo(@, link.parent, link.tid)]
             IN  update_link_index(lx1, Tail(ls))

\* The inner loop of update_group_index left after its first member.
AddMembersFirstOnly(gx, members, tid) ==
    IF members = {} THEN gx
    ELSE AddTo(gx, CHOOSE m \in members : TRUE, tid)

\* update_group_index(groups) on the index gx.
RECURSIVE AddMembers(_, _, _)
AddMembers(gx, members, tid) ==
    IF members = {} THEN gx
    ELSE LET m == CHOOSE m \in members : TRUE
         IN  AddMembers(AddTo(gx, m, tid), members \ {m}, tid)

RECURSIVE update_group_index(_, _)
update_group_index(gx, gs) ==
    IF gs = << >> THEN gx
    ELSE update_group_index(AddMembers(gx, Head(gs).members, Head(gs).tid),
                            Tail(gs))

\* ---------------------------------------------------- the coverage index
\* _in_span(inner_entry, span): the span of a link is that of its endpoints,
\* the span of a group that of its members, both read through entry_index;
\* -1 is the start value of the group's loop.
SetMin(S) == CHOOSE x \in S : \A y \in S : x <= y
SetMax(S) == CHOOSE x \in S : \A y \in S : x >= y

inner_begin(eidx, entry) ==
    IF IsAnnotation(entry) THEN entry.b
    ELSE IF IsLink(entry)
    THEN SetMin({eidx[entry.child].b, eidx[entry.parent].b})
    ELSE IF entry.members = {} THEN -1
    ELSE SetMin({eidx[m].b : m \in entry.members})

inner_end(eidx, entry) ==
    IF IsAnnotation(entry) THEN entry.e
    ELSE IF IsLink(entry)
    THEN SetMax({eidx[entry.child].e, eidx[entry.parent].e})
    ELSE SetMax({-1} \cup {eidx[m].e : m \in entry.members})

in_span(eidx, entry, outer) ==
    inner_begin(eidx, entry) >= outer.b /\ inner_end(eidx, entry) <= outer.e

\* _have_overlap that compares begin with begin and end with end.
have_overlap_same_ends(entry1, entry2) ==
    ~(entry1.b >= entry2.b \/ entry1.e <= entry2.e)

\* _have_overlap(entry1, entry2)
have_overlap(entry1, entry2) ==
    ~(entry1.b >= entry2.e \/ entry1.e <= entry2.b)

\* build_coverage_index.add_covered_entries(outer, stop, step), started at k:
\* the ids it adds to coverage_index[dict_name][outer.tid]. c holds what the
\* closure reads: annotations, entry_index, link_index, group_index,
\* inner_type, index_link_as_inner, index_group_as_inner.
CoveredAt(c, outer, inner) ==
    (IF isinstance(inner, c.inner_type) THEN {inner.tid} ELSE {})
    \cup
    (IF c.index_link_as_inner
     THEN {id \in Get(c.link_index["child_index"], inner.tid)
                  \cup Get(c.link_index["parent_index"], inner.tid) :
              /\ isinstance(c.entry_index[id], c.inner_type)
              /\ in_span(c.entry_index, c.entry_index[id], outer)}
     ELSE {})
    \cup
    (IF c.index_group_as_inner
     THEN {id \in Get(c.group_index, inner.tid) :
              /\ isinstance(c.entry_index[id], c.inner_type)
              /\ in_span(c.entry_index, c.entry_index[id], outer)}
     ELSE {})

RECURSIVE add_covered_entries(_, _, _, _, _, _)
add_covered_entries(c, outer, k, stop, step, acc) ==
    IF k = stop THEN acc
    ELSE LET inner == c.annotations[k]
         IN  IF in_span(c.entry_index, inner, outer)
             THEN add_covered_entries(c, outer, k + step, stop, step,
                                      acc \cup CoveredAt(c, outer, inner))
             ELSE IF ~have_overlap(outer, inner) THEN acc
             ELSE add_covered_entries(c, outer, k + step, stop, step, acc)

\* The loop over the outer annotations (lines 281-285), from position i on;
\* cx is coverage_index[dict_name].
RECURSIVE CoverageLoop(_, _, _, _)
CoverageLoop(c, outer_type, i, cx) ==
    IF i > Len(c.annotations) THEN cx
    ELSE LET outer == c.annotations[i]
             found == add_covered_entries(c, outer, i, 0, -1, {})
                      \cup add_covered_entries(c, outer, i,
                                               Len(c.annotations) + 1, 1, {})
         IN  IF ~isinstance(outer, outer_type) \/ found = {}
             THEN CoverageLoop(c, outer_type, i + 1, cx)
             ELSE CoverageLoop(c, outer_type, i + 1,
                               Put(cx, outer.tid, Get(cx, outer.tid) \cup found))

\* An optional list argument: None, or the list.
NoneArg == [some |-> FALSE, v |-> << >>]
Some(v) == [some |-> TRUE, v |-> v]

\* build_coverage_index that reads a list that is None as the empty list.
build_coverage_index_none_as_empty(st, anns, ls, gs, outer_type, inner_type) ==
    IF ~issubclass(outer_type, "Annotation") \/ ~issubclass(inner_type, "Entry")
    THEN [st EXCEPT !.err = "TypeError"]
    ELSE
    LET dict_name == <<outer_type, inner_type>>
        index_link_as_inner == inner_type = "Entry" \/ issubclass(inner_type, "Link")
        index_group_as_inner == inner_type = "Entry" \/ issubclass(inner_type, "Group")
        link_missing == FALSE
        st1 == IF index_link_as_inner /\ ~st.link_index_switch
               THEN [st EXCEPT !.link_index = update_link_index(@, ls.v),
                               !.link_index_switch = TRUE]
               ELSE st
        group_missing == FALSE
        st2 == IF index_group_as_inner /\ ~st1.group_index_switch
               THEN [st1 EXCEPT !.group_index = update_group_index(@, gs.v),
                                !.group_index_switch = TRUE]
               ELSE st1
        c == [annotations |-> anns, entry_index |-> st.entry_index,
              link_index |-> st2.link_index, group_index |-> st2.group_index,
              inner_type |-> inner_type,
              index_link_as_inner |-> index_link_as_inner,
              index_group_as_inner |-> index_group_as_inner]
        cx == IF dict_name \in DOMAIN st.coverage_index
              THEN st.coverage_index[dict_name] ELSE EmptyMap
    IN  IF link_missing THEN [st EXCEPT !.err = "ValueError"]
        ELSE IF group_missing THEN [st1 EXCEPT !.err = "ValueError"]
        ELSE [st2 EXCEPT
                !.coverage_index = Put(@, dict_name, CoverageLoop(c, outer_type, 1, cx)),
                !.coverage_index_switch = Put(@, dict_name, TRUE)]

\* build_coverage_index that checks the types after the activation of the
\* structural indexes.
build_coverage_index_late_type_check(st, anns, ls, gs, outer_type, inner_type) ==
    LET dict_name == <<outer_type, inner_type>>
        index_link_as_inner == inner_type = "Entry" \/ issubclass(inner_type, "Link")
        index_group_as_inner == inner_type = "Entry" \/ issubclass(inner_type, "Group")
        link_missing == index_link_as_inner /\ ~st.link_index_switch /\ ~ls.some
        st1 == IF index_link_as_inner /\ ~st.link_index_switch /\ ls.some
               THEN [st EXCEPT !.link_index = update_link_index(@, ls.v),
                               !.link_index_switch = TRUE]
               ELSE st
        group_missing == index_group_as_inner /\ ~st1.group_index_switch /\ ~gs.some
        st2 == IF index_group_as_inner /\ ~st1.group_index_switch /\ gs.some
               THEN [st1 EXCEPT !.group_index = update_group_index(@, gs.v),
                                !.group_index_switch = TRUE]
               ELSE st1
        c == [annotations |-> anns, entry_index |-> st.entry_index,
              link_index |-> st2.link_index, group_index |-> st2.group_index,
              inner_type |-> inner_type,
              index_link_as_inner |-> index_link_as_inner,
              index_group_as_inner |-> index_group_as_inner]
        cx == IF dict_name \in DOMAIN st.coverage_index
              THEN st.coverage_index[dict_name] ELSE EmptyMap
    IN  IF ~issubclass(outer_type, "Annotation") \/ ~issubclass(inner_type, "Entry")
        THEN [st2 EXCEPT !.err = "TypeError"]
        ELSE IF link_missing THEN [st EXCEPT !.err = "ValueError"]
        ELSE IF group_missing THEN [st1 EXCEPT !.err = "ValueError"]
        ELSE [st2 EXCEPT
                !.coverage_index = Put(@, dict_name, CoverageLoop(c, outer_type, 1, cx)),
                !.coverage_index_switch = Put(@, dict_name, TRUE)]

\* build_coverage_index(annotations, links, groups, outer_type, inner_type)
\* on the state st (the DataIndex fields it reads and writes): ls and gs are
\* the lists passed, or None. The result is the state it leaves, with err
\* the exception raised ("" when it returns).
build_coverage_index(st, anns, ls, gs, outer_type, inner_type) ==
    IF ~issubclass(outer_type, "Annotation") \/ ~issubclass(inner_type, "Entry")
    THEN [st EXCEPT !.err = "TypeError"]
    ELSE
    LET dict_name == <<outer_type, inner_type>>
        index_link_as_inner == inner_type = "Entry" \/ issubclass(inner_type, "Link")
        index_group_as_inner == inner_type = "Entry" \/ issubclass(inner_type, "Group")
        link_missing == index_link_as_inner /\ ~st.link_index_switch /\ ~ls.some
        st1 == IF index_link_as_inner /\ ~st.link_index_switch /\ ls.some
               THEN [st EXCEPT !.link_index = update_link_index(@, ls.v),
                               !.link_index_switch = TRUE]
               ELSE st
        group_missing == index_group_as_inner /\ ~st1.group_index_switch /\ ~gs.some
        st2 == IF index_group_as_inner /\ ~st1.group_index_switch /\ gs.some
               THEN [st1 EXCEPT !.group_index = update_group_index(@, gs.v),
                                !.group_index_switch = TRUE]
               ELSE st1
        c == [annotations |-> anns, entry_index |-> st.entry_index,
              link_index |-> st2.link_index, group_index |-> st2.group_index,
              inner_type |-> inner_type,
              index_link_as_inner |-> index_link_as_inner,
              index_group_as_inner |-> index_group_as_inner]
        cx == IF dict_name \in DOMAIN st.coverage_index
              THEN st.coverage_index[dict_name] ELSE EmptyMap
    IN  IF link_missing THEN [st EXCEPT !.err = "ValueError"]
        ELSE IF group_missing THEN [st1 EXCEPT !.err = "ValueError"]
        ELSE [st2 EXCEPT
                !.coverage_index = Put(@, dict_name, CoverageLoop(c, outer_type, 1, cx)),
                !.coverage_index_switch = Put(@, dict_name, TRUE)]

\* The DataIndex fields as one record, and back.
IndexState ==
    [entry_index |-> entry_index, link_index |-> link_index,
     group_index |-> group_index, link_index_switch |-> link_index_switch,
     group_index_switch |-> group_index_switch,
     coverage_index |-> coverage_index,
     coverage_index_switch |-> coverage_index_switch, err |-> ""]

SetIndexState(st) ==
    /\ link_index' = st.link_index
    /\ group_index' = st.group_index
    /\ link_index_switch' = st.link_index_switch
    /\ group_index_switch' = st.group_index_switch
    /\ coverage_index' = st.coverage_index
    /\ coverage_index_switch' = st.coverage_index_switch

Cached(st, key) ==
    key \in DOMAIN st.coverage_index_switch /\ st.coverage_index_switch[key]

\* get_coverage_index with the tiers (Annotation, inner) and (outer, Entry)
\* tried in the other order.
get_coverage_index_entry_first(st, outer_name, inner_name) ==
    IF Cached(st, <<outer_name, inner_name>>)
    THEN [key |-> <<outer_name, inner_name>>, st |-> st]
    ELSE IF Cached(st, <<outer_name, "Entry">>)
    THEN [key |-> <<outer_name, "Entry">>, st |-> st]
    ELSE IF Cached(st, <<"Annotation", inner_name>>)
    THEN [key |-> <<"Annotation", inner_name>>, st |-> st]
    ELSE IF Cached(st, <<"Annotation", "Entry">>)
    THEN [key |-> <<"Annotation", "Entry">>, st |-> st]
    ELSE [key |-> <<outer_name, inner_name>>,
          st |-> build_coverage_index(st, annotations, Some(links),
                                      Some(groups), outer_name, inner_name)]

\* get_coverage_index(outer_type, inner_type): the key of the index returned
\* and the state left (a build when no tier is cached).
get_coverage_index(st, outer_name, inner_name) ==
    IF Cached(st, <<outer_name, inner_name>>)
    THEN [key |-> <<outer_name, inner_name>>, st |-> st]
    ELSE IF Cached(st, <<"Annotation", inner_name>>)
    THEN [key |-> <<"Annotation", inner_name>>, st |-> st]
    ELSE IF Cached(st, <<outer_name, "Entry">>)
    THEN [key |-> <<outer_name, "Entry">>, st |-> st]
    ELSE IF Cached(st, <<"Annotation", "Entry">>)
    THEN [key |-> <<"Annotation", "Entry">>, st |-> st]
    ELSE [key |-> <<outer_name, inner_name>>,
          st |-> build_coverage_index(st, annotations, Some(links),
                                      Some(groups), outer_name, inner_name)]

\* ------------------------------------------------------------- add_entry
Target(entry) == IF IsAnnotation(entry) THEN annotations
                 ELSE IF IsLink(entry) THEN links ELSE groups

\* target.index(entry), 0 when `entry not in target`.
IndexInTarget(entry) ==
    IF IsAnnotation(entry) THEN SortedListIndex(annotations, entry)
    ELSE ListIndex(Target(entry), entry)

\* add_entry that takes an entry of any variant.
add_entry_err_none(entry) == ""

\* The exception add_entry(entry) raises ("" when it returns): an entry that
\* is no Annotation, Link or Group is refused before anything is read.
add_entry_err(entry) ==
    IF IsAnnotation(entry) \/ IsLink(entry) \/ IsGroup(entry) THEN ""
    ELSE "ValueError"

\* add_entry that updates the link index and the group index whether they
\* are active or not.
AddEntryEager(entry) ==
    LET pos == IndexInTarget(entry)
        name == entry.type
    IN  IF add_entry_err(entry) # ""
        THEN UNCHANGED <<store, internal_metas, basic, structural, coverage, iters>>
        ELSE IF pos = 0
        THEN LET e1 == IF entry.tid = NoTid
                       THEN set_tid(entry, Meta(name).id_counter)
                       ELSE entry
             IN  /\ annotations' = IF IsAnnotation(e1)
                                   THEN SortedListAdd(annotations, e1)
                                   ELSE annotations
                 /\ links' = IF IsLink(e1) THEN Append(links, e1) ELSE links
                 /\ groups' = IF IsGroup(e1) THEN Append(groups, e1) ELSE groups
                 /\ internal_metas' =
                        Put(internal_metas, name,
                            [Meta(name) EXCEPT !.id_counter = @ + 1])
                 /\ entry_index' = Put(entry_index, e1.tid, e1)
                 /\ type_index' = AddTo(type_index, name, e1.tid)
                 /\ component_index' = AddTo(component_index, e1.comp, e1.tid)
                 /\ IF IsLink(e1)
                    THEN link_index' = update_link_index(link_index, <<e1>>)
                    ELSE link_index' = link_index
                 /\ IF IsGroup(e1)
                    THEN group_index' = update_group_index(group_index, <<e1>>)
                    ELSE group_index' = group_index
                 /\ UNCHANGED <<link_index_switch, group_index_switch, coverage, iters>>
        ELSE UNCHANGED <<store, internal_metas, basic, structural, coverage, iters>>

AddEntry(entry) ==
    LET pos == IndexInTarget(entry)
        name == entry.type
    IN  IF add_entry_err(entry) # ""
        THEN UNCHANGED <<store, internal_metas, basic, structural, coverage, iters>>
        ELSE IF pos = 0
        THEN LET e1 == IF entry.tid = NoTid
                       THEN set_tid(entry, Meta(name).id_counter)
                       ELSE entry
             IN  /\ annotations' = IF IsAnnotation(e1)
                                   THEN SortedListAdd(annotations, e1)
                                   ELSE annotations
                 /\ links' = IF IsLink(e1) THEN Append(links, e1) ELSE links
                 /\ groups' = IF IsGroup(e1) THEN Append(groups, e1) ELSE groups
                 /\ internal_metas' =
                        Put(internal_metas, name,
                            [Meta(name) EXCEPT !.id_counter = @ + 1])
                 /\ entry_index' = Put(entry_index, e1.tid, e1)
                 /\ type_index' = AddTo(type_index, name, e1.tid)
                 /\ component_index' = AddTo(component_index, e1.comp, e1.tid)
                 /\ IF link_index_switch /\ IsLink(e1)
                    THEN link_index' = update_link_index(link_index, <<e1>>)
                    ELSE link_index' = link_index
                 /\ IF group_index_switch /\ IsGroup(e1)
                    THEN group_index' = update_group_index(group_index, <<e1>>)
                    ELSE group_index' = group_index
                 /\ UNCHANGED <<link_index_switch, group_index_switch, coverage, iters>>
        ELSE UNCHANGED <<store, internal_metas, basic, structural, coverage, iters>>

\* ------------------------------------------------------- the operations
\* The store takes MaxEntries entries.
Room == Len(annotations) + Len(links) + Len(groups) < MaxEntries

AnnotationTids == {annotations[i].tid : i \in DOMAIN annotations}

Spans == {s \in (0..MaxPos) \X (0..MaxPos) : s[1] <= s[2]}

\* The ids of an entry of class `type`: none (NoTid), or one the caller chose.
TidChoices(type, ids) == {NoTid} \cup {<<type, n>> : n \in ids}

\* The entries a caller hands to add_entry. A scenario sc bounds the
\* arguments of the calls: the classes, components, spans and caller-chosen
\* ids of the entries, and the types asked of the coverage index and of
\* get_entries.
NewAnnotations(sc) ==
    {[kind |-> "A", type |-> t, comp |-> c, tid |-> x, b |-> s[1], e |-> s[2],
      parent |-> NoTid, child |-> NoTid, members |-> {}] :
        t \in sc.types, c \in sc.comps, s \in sc.spans,
        x \in {NoTid} \cup {<<tt, n>> : tt \in sc.types, n \in sc.ids}}

AddAnnotation(sc) ==
    \E entry \in NewAnnotations(sc) :
        /\ entry.tid \in TidChoices(entry.type, sc.ids)
        /\ IndexInTarget(entry) = 0 => Room
        /\ AddEntry(entry)

NewLinks(sc) ==
    {[kind |-> "L", type |-> t, comp |-> c, tid |-> x, b |-> 0, e |-> 0,
      parent |-> p, child |-> ch, members |-> {}] :
        t \in LinkTypes, c \in sc.lcomps, x \in TidChoices("Link", sc.lids),
        p \in AnnotationTids, ch \in AnnotationTids}

AddLink(sc) ==
    \E entry \in NewLinks(sc) :
        /\ IndexInTarget(entry) = 0 => Room
        /\ AddEntry(entry)

NewGroups(sc) ==
    {[kind |-> "G", type |-> t, comp |-> c, tid |-> x, b |-> 0, e |-> 0,
      parent |-> NoTid, child |-> NoTid, members |-> ms] :
        t \in GroupTypes, c \in sc.gcomps, x \in TidChoices("Group", sc.gids),
        ms \in SUBSET AnnotationTids}

AddGroup(sc) ==
    \E entry \in NewGroups(sc) :
        /\ IndexInTarget(entry) = 0 => Room
        /\ AddEntry(entry)

\* Entries that are no Annotation, Link or Group: instances of Entry itself.
OtherEntries ==
    {[kind |-> "E", type |-> "Entry", comp |-> c, tid |-> NoTid, b |-> 0, e |-> 0,
      parent |-> NoTid, child |-> NoTid, members |-> {}] : c \in Components}

AddOther ==
    \E entry \in OtherEntries :
        /\ IndexInTarget(entry) = 0 => Room
        /\ AddEntry(entry)

\* An explicit build of the link index / the group index from the store.
UpdateLinkIndex ==
    /\ link_index' = update_link_index(link_index, links)
    /\ link_index_switch' = TRUE
    /\ UNCHANGED <<store, internal_metas, basic, group_index,
                   group_index_switch, coverage, iters>>

UpdateGroupIndex ==
    /\ group_index' = update_group_index(group_index, groups)
    /\ group_index_switch' = TRUE
    /\ UNCHANGED <<store, internal_metas, basic, link_index,
                   link_index_switch, coverage, iters>>

\* The cache takes MaxKeys keys: a build of one more key needs room.
KeyRoom(key) ==
    key \in DOMAIN coverage_index \/ Cardinality(DOMAIN coverage_index) < MaxKeys

BuildCoverageIndexOf(outer_type, inner_type, ls, gs) ==
    LET st == build_coverage_index(IndexState, annotations, ls, gs,
                                   outer_type, inner_type)
    IN  /\ SetIndexState(st)
        /\ UNCHANGED <<store, internal_metas, basic, iters>>

BuildCoverageIndex(sc) ==
    \E outer_type \in sc.outers, inner_type \in sc.inners,
       ls \in {NoneArg, Some(links)}, gs \in {NoneArg, Some(groups)} :
        /\ KeyRoom(<<outer_type, inner_type>>)
        /\ BuildCoverageIndexOf(outer_type, inner_type, ls, gs)

GetCoverageIndexOf(outer_type, inner_type) ==
    /\ SetIndexState(get_coverage_index(IndexState, outer_type, inner_type).st)
    /\ UNCHANGED <<store, internal_metas, basic, iters>>

GetCoverageIndex(sc) ==
    \E outer_type \in sc.gouters, inner_type \in sc.ginners :
        /\ KeyRoom(get_coverage_index(IndexState, outer_type, inner_type).key)
        /\ GetCoverageIndexOf(outer_type, inner_type)

\* get_entries(entry_type, range_annotation, component), consumed to its end:
\* what it yields (the sequence of annotations, or the set of links or
\* groups), the exception it raises and the state left.
Probe(begin) == [b |-> begin, e |-> -1]

RECURSIVE FilterByTid(_, _)
FilterByTid(s, ids) ==
    IF s = << >> THEN << >>
    ELSE (IF Head(s).tid \in ids THEN <<Head(s)>> ELSE << >>)
         \o FilterByTid(Tail(s), ids)

get_entries(st, entry_type, range_annotation, component) ==
    IF range_annotation = NoRange /\ annotations = << >>
    THEN [yield |-> << >>, found |-> {}, err |-> "IndexError", st |-> st]
    ELSE
    LET sent_begin == IF range_annotation # NoRange THEN range_annotation.b ELSE 0
        sent_end == IF range_annotation # NoRange THEN range_annotation.e
                    ELSE annotations[Len(annotations)].e
        v0 == Get(type_index, entry_type)
        v1 == IF component # None THEN v0 \cap Get(component_index, component)
              ELSE v0
        r == IF range_annotation # NoRange
             THEN get_coverage_index(st, range_annotation.type, entry_type)
             ELSE [key |-> <<None, None>>, st |-> st]
        valid_id == IF range_annotation # NoRange
                    THEN v1 \cap Get(r.st.coverage_index[r.key],
                                     range_annotation.tid)
                    ELSE v1
        begin_index == bisect_right(annotations, Probe(sent_begin))
        end_index == bisect_right(annotations, Probe(sent_end))
    IN  IF r.st.err # ""
        THEN [yield |-> << >>, found |-> {}, err |-> r.st.err, st |-> r.st]
        ELSE IF issubclass(entry_type, "Annotation")
        THEN [yield |-> FilterByTid(SubSeq(annotations, begin_index + 1,
                                           end_index), valid_id),
              found |-> {}, err |-> "", st |-> r.st]
        ELSE IF issubclass(entry_type, "Link") \/ issubclass(entry_type, "Group")
        THEN [yield |-> << >>, found |-> {entry_index[id] : id \in valid_id},
              err |-> "", st |-> r.st]
        ELSE [yield |-> << >>, found |-> {}, err |-> "", st |-> r.st]

\* get_entries that narrows valid_id in place (&=) by the covered ids of the
\* range: valid_id is the set type_index[name] itself.
GetEntriesOfInPlace(entry_type, range_annotation, component) ==
    LET g == get_entries(IndexState, entry_type, range_annotation, component)
        r == get_coverage_index(IndexState, range_annotation.type, entry_type)
    IN  /\ SetIndexState(g.st)
        /\ type_index' =
               IF /\ range_annotation # NoRange
                  /\ g.err = ""
                  /\ entry_type \in DOMAIN type_index
               THEN Put(type_index, entry_type,
                        type_index[entry_type]
                            \cap Get(r.st.coverage_index[r.key],
                                     range_annotation.tid))
               ELSE type_index
        /\ UNCHANGED <<store, internal_metas, entry_index, component_index, iters>>

GetEntriesOf(entry_type, range_annotation, component) ==
    /\ SetIndexState(get_entries(IndexState, entry_type, range_annotation,
                                 component).st)
    /\ UNCHANGED <<store, internal_metas, basic, iters>>

RangeArgs == {NoRange} \cup Range(annotations)

GetEntries(sc) ==
    \E entry_type \in sc.etypes, range_annotation \in RangeArgs,
       component \in sc.qcomps :
        /\ range_annotation # NoRange =>
               /\ range_annotation.type \in sc.rtypes
               /\ KeyRoom(get_coverage_index(IndexState, range_annotation.type,
                                             entry_type).key)
        /\ GetEntriesOf(entry_type, range_annotation, component)

RECURSIVE SetToSeq(_)
SetToSeq(S) ==
    IF S = {} THEN << >>
    ELSE LET x == CHOOSE x \in S : TRUE IN <<x>> \o SetToSeq(S \ {x})

\* The body of get_entries up to its loop: the exception raised, the index
\* state left, the sequence the loop runs over (annotations of the slice, or
\* the ids of valid_id) and valid_id, which is the set type_index[name]
\* itself (live) when neither component nor range is given.
get_entries_setup(st, entry_type, range_annotation, component) ==
    IF range_annotation = NoRange /\ annotations = << >>
    THEN [err |-> "IndexError", st |-> st, slice |-> << >>, live |-> FALSE,
          valid_id |-> {}]
    ELSE
    LET sent_begin == IF range_annotation # NoRange THEN range_annotation.b ELSE 0
        sent_end == IF range_annotation # NoRange THEN range_annotation.e
                    ELSE annotations[Len(annotations)].e
        v0 == Get(type_index, entry_type)
        v1 == IF component # None THEN v0 \cap Get(component_index, component)
              ELSE v0
        r == IF range_annotation # NoRange
             THEN get_coverage_index(st, range_annotation.type, entry_type)
             ELSE [key |-> <<None, None>>, st |-> st]
        valid_id == IF range_annotation # NoRange
                    THEN v1 \cap Get(r.st.coverage_index[r.key],
                                     range_annotation.tid)
                    ELSE v1
        begin_index == bisect_right(annotations, Probe(sent_begin))
        end_index == bisect_right(annotations, Probe(sent_end))
    IN  IF r.st.err # ""
        THEN [err |-> r.st.err, st |-> r.st, slice |-> << >>, live |-> FALSE,
              valid_id |-> {}]
        ELSE [err |-> "", st |-> r.st,
              slice |-> IF issubclass(entry_type, "Annotation")
                        THEN SubSeq(annotations, begin_index + 1, end_index)
                        ELSE IF issubclass(entry_type, "Link")
                                \/ issubclass(entry_type, "Group")
                        THEN SetToSeq(valid_id)
                        ELSE << >>,
              live |-> component = None /\ range_annotation = NoRange,
              valid_id |-> valid_id]

\* The loop of the generator it from its position on, up to the next yield:
\* the generator after this next().
get_entries_resume(it) ==
    LET ids == IF it.live THEN Get(type_index, it.entry_type) ELSE it.valid_id
        hits == {k \in it.pos..Len(it.slice) :
                    \/ ~issubclass(it.entry_type, "Annotation")
                    \/ it.slice[k].tid \in ids}
    IN  IF hits = {} THEN [it EXCEPT !.pc = "done", !.pos = Len(it.slice) + 1]
        ELSE LET k == SetMin(hits)
                 item == IF issubclass(it.entry_type, "Annotation")
                         THEN it.slice[k] ELSE entry_index[it.slice[k]]
             IN  [it EXCEPT !.pc = "running", !.pos = k + 1,
                            !.out = Append(@, item)]

\* iter = get_entries(entry_type, range_annotation, component)
CallGetEntries(sc) ==
    \E i \in Iters, entry_type \in sc.etypes, range_annotation \in RangeArgs,
       component \in sc.qcomps :
        LET g == get_entries(IndexState, entry_type, range_annotation, component)
        IN  /\ iters[i].pc = "none"
            /\ range_annotation # NoRange => range_annotation.type \in sc.rtypes
            /\ iters' = [iters EXCEPT ![i] =
                   [NoIter EXCEPT !.pc = "new", !.entry_type = entry_type,
                                  !.range_annotation = range_annotation,
                                  !.component = component,
                                  !.alone = [yield |-> g.yield, found |-> g.found,
                                             err |-> g.err]]]
            /\ UNCHANGED <<store, internal_metas, basic, structural, coverage>>

\* next(iter)
NextEntry ==
    \E i \in Iters :
        LET it == iters[i]
            s == get_entries_setup(IndexState, it.entry_type,
                                   it.range_annotation, it.component)
        IN  /\ it.pc \in {"new", "running"}
            /\ IF it.pc = "running"
               THEN /\ iters' = [iters EXCEPT ![i] = get_entries_resume(it)]
                    /\ UNCHANGED <<structural, coverage>>
               ELSE /\ SetIndexState(s.st)
                    /\ iters' = [iters EXCEPT ![i] =
                           IF s.err # ""
                           THEN [it EXCEPT !.pc = "done", !.err = s.err]
                           ELSE get_entries_resume(
                                    [it EXCEPT !.slice = s.slice, !.live = s.live,
                                               !.valid_id = s.valid_id])]
            /\ UNCHANGED <<store, internal_metas, basic>>

\* The caller drops a generator that has ended.
DropIter ==
    \E i \in Iters :
        /\ iters[i].pc = "done"
        /\ iters' = [iters EXCEPT ![i] = NoIter]
        /\ UNCHANGED <<store, internal_metas, basic, structural, coverage>>

\* An admission of an annotation while the caller holds no generator.
AddAnnotationBetween(sc) ==
    /\ \A i \in Iters : iters[i].pc = "none"
    /\ AddAnnotation(sc)

NextOf(sc) ==
    \/ AddAnnotation(sc)
    \/ AddLink(sc)
    \/ AddGroup(sc)
    \/ UpdateLinkIndex
    \/ UpdateGroupIndex
    \/ BuildCoverageIndex(sc)
    \/ GetCoverageIndex(sc)
    \/ GetEntries(sc)

\* ------------------------------------------------------- specifications
\* Every operation, over entries of two annotation classes from one
\* component, with and without caller-chosen ids.
General ==
    [types |-> AnnotationTypes, comps |-> {"c1"}, spans |-> Spans, ids |-> {1},
     lcomps |-> {"c1"}, lids |-> {}, gcomps |-> {"c1"}, gids |-> {},
     outers |-> {"Sentence", "Link"}, inners |-> {"Token", "Entry", "str"},
     gouters |-> {"Sentence"}, ginners |-> {"Token", "Link", "Group"},
     etypes |-> {"Token", "Link", "Group"}, rtypes |-> AnnotationTypes,
     qcomps |-> {None, "c1"}]

Next == NextOf(General)

Spec == Init /\ [][Next]_vars

\* Annotations of every span, in every order of admission, and the builds
\* and queries that read them; one coverage key.
Sorting ==
    [types |-> AnnotationTypes, comps |-> {"c1"}, spans |-> Spans, ids |-> {},
     lcomps |-> {"c1"}, lids |-> {}, gcomps |-> {"c1"}, gids |-> {},
     outers |-> {"Annotation"}, inners |-> {"Annotation"},
     gouters |-> {"Annotation"}, ginners |-> {"Annotation"},
     etypes |-> {"Token"}, rtypes |-> {"Sentence"}, qcomps |-> {None}]

NextSorting ==
    \/ AddAnnotation(Sorting)
    \/ BuildCoverageIndex(Sorting)
    \/ GetCoverageIndex(Sorting)
    \/ GetEntries(Sorting)

SpecSorting == Init /\ [][NextSorting]_vars

\* Links and groups over annotations of one span, with and without
\* caller-chosen ids; the indexes are activated by the explicit builds and by
\* the coverage build of (Annotation, Entry).
Structural ==
    [types |-> AnnotationTypes, comps |-> {"c1"}, spans |-> {<<0, 0>>},
     ids |-> {}, lcomps |-> {"c1"}, lids |-> {1}, gcomps |-> {"c1"},
     gids |-> {1}, outers |-> {"Annotation", "Link"},
     inners |-> {"Entry", "str"},
     gouters |-> {"Annotation"}, ginners |-> {"Entry"},
     etypes |-> {"Link", "Group"}, rtypes |-> AnnotationTypes,
     qcomps |-> {None}]

NextStructural ==
    \/ NextOf(Structural)
    \/ AddOther

SpecStructural == Init /\ [][NextStructural]_vars

\* The coverage cache with every key of two outer and two inner types:
\* builds and lookups in every order, between admissions of annotations.
Tiers ==
    [types |-> AnnotationTypes, comps |-> {"c1"}, spans |-> {<<0, 0>>, <<0, 1>>},
     ids |-> {}, lcomps |-> {"c1"}, lids |-> {}, gcomps |-> {"c1"}, gids |-> {},
     outers |-> {"Annotation", "Sentence"}, inners |-> {"Entry", "Token"},
     gouters |-> {"Annotation", "Sentence"}, ginners |-> {"Entry", "Token"},
     etypes |-> {"Token"}, rtypes |-> {"Sentence"}, qcomps |-> {None}]

BuildCoverageIndexTiers ==
    \E outer_type \in Tiers.outers, inner_type \in Tiers.inners :
        BuildCoverageIndexOf(outer_type, inner_type, Some(links), Some(groups))

GetCoverageIndexTiers ==
    \E outer_type \in Tiers.gouters, inner_type \in Tiers.ginners :
        GetCoverageIndexOf(outer_type, inner_type)

NextTiers ==
    \/ AddAnnotation(Tiers)
    \/ BuildCoverageIndexTiers
    \/ GetCoverageIndexTiers

SpecTiers == Init /\ [][NextTiers]_vars

\* ----------------------------------------------------- field provenance
\* record_fields(fields, component, entry_type) on the metas: the metas left.
\* fields_created maps a component to the set of fields recorded for it.
record_fields(metas, fields, component, entry_type) ==
    LET m0 == IF entry_type \in DOMAIN metas THEN metas[entry_type]
              ELSE [InternalMeta EXCEPT !.default_component = component]
        m1 == [m0 EXCEPT !.fields_created =
                  Put(@, component, Get(@, component) \cup fields \cup {"tid"})]
    IN  Put(metas, entry_type, m1)

RecordFieldsOf(fields, component, entry_type) ==
    /\ internal_metas' = record_fields(internal_metas, fields, component, entry_type)
    /\ UNCHANGED <<store, basic, structural, coverage, iters>>

FieldNames == {"lemma", "pos"}

RecordFields(sc) ==
    \E fields \in SUBSET FieldNames, component \in sc.fcomps,
       entry_type \in sc.ftypes :
        RecordFieldsOf(fields, component, entry_type)

\* _process_request_args(a_type, a_args), a_args being a dict with the
\* component asked for (or None) and the fields: the exception raised and the
\* component resolved.
process_request_args(a_type, component, fields) ==
    IF a_type \notin DOMAIN internal_metas
    THEN [err |-> "AttributeError", component |-> None]
    ELSE LET a_meta == internal_metas[a_type]
             resolved == IF component = None THEN a_meta.default_component
                         ELSE component
         IN  IF resolved \notin DOMAIN a_meta.fields_created
             THEN [err |-> "AttributeError", component |-> resolved]
             ELSE [err |-> "", component |-> resolved]

\* _generate_annotation_entry_data(a_type, a_args, sent): the exception it
\* raises, "" when it returns; sent is a Sentence or None (NoRange).
generate_annotation_entry_data(a_type, component, fields, sent) ==
    LET p == process_request_args(a_type, component, fields)
        sent_begin == IF sent # NoRange THEN sent.b ELSE 0
        sent_end == IF sent # NoRange THEN sent.e
                    ELSE annotations[Len(annotations)].e
        valid_id ==
            (IF sent # NoRange
             THEN Get(coverage_index[<<"Sentence", "Entry">>], sent.tid)
             ELSE Get(type_index, a_type))
            \cap Get(type_index, a_type) \cap Get(component_index, p.component)
        begin_index == bisect_right(annotations, Probe(sent_begin))
        end_index == bisect_right(annotations, Probe(sent_end))
        visited == {k \in (begin_index + 1)..end_index :
                       annotations[k].tid \in valid_id}
    IN  IF p.err # "" THEN p.err
        ELSE IF sent = NoRange /\ annotations = << >> THEN "IndexError"
        ELSE IF sent # NoRange /\ <<"Sentence", "Entry">> \notin DOMAIN coverage_index
        THEN "KeyError"
        ELSE IF /\ visited # {}
                /\ \E field \in fields :
                       field \notin internal_metas[a_type].fields_created[p.component]
        THEN "AttributeError"
        ELSE ""

\* The sentences a caller can pass as sent.
SentArgs == {NoRange} \cup {a \in Range(annotations) : a.type = "Sentence"}

GenerateAnnotationEntryData(sc) ==
    \E a_type \in sc.ftypes, component \in {None} \cup sc.fcomps,
       fields \in SUBSET FieldNames, sent \in SentArgs :
        /\ generate_annotation_entry_data(a_type, component, fields, sent)
               \in {"", "AttributeError", "IndexError", "KeyError"}
        /\ UNCHANGED vars

\* Admissions of annotations, recordings of the fields of Token, builds of
\* the (Sentence, Entry) coverage index and record extractions of Token, in
\* every order.
Provenance ==
    [types |-> AnnotationTypes, comps |-> {"c1"}, spans |-> {<<0, 0>>, <<0, 1>>},
     ids |-> {}, ftypes |-> {"Token"}, fcomps |-> Components]

NextProvenance ==
    \/ AddAnnotation(Provenance)
    \/ RecordFields(Provenance)
    \/ BuildCoverageIndexOf("Sentence", "Entry", Some(links), Some(groups))
    \/ GenerateAnnotationEntryData(Provenance)

SpecProvenance == Init /\ [][NextProvenance]_vars

\* Generators of get_entries over annotations of one span, of the classes
\* Annotation, Sentence and Token, consumed in every interleaving; the
\* annotations are admitted while no generator is held.
Iterating ==
    [types |-> {"Annotation", "Sentence", "Token"}, comps |-> {"c1"},
     spans |-> {<<0, 1>>}, ids |-> {}, etypes |-> {"Token", "Entry"},
     rtypes |-> {"Annotation", "Sentence"}, qcomps |-> {None}]

NextIterating ==
    \/ AddAnnotationBetween(Iterating)
    \/ CallGetEntries(Iterating)
    \/ NextEntry
    \/ DropIter

SpecIterating == Init /\ [][NextIterating]_vars

\* ------------------------------------------------------------- the claims
Stored == annotations \o links \o groups

OuterTypes == {"Annotation", "Sentence", "Token"}

\* The entries of the general scenario.
Inputs == NewAnnotations(General) \cup NewLinks(General) \cup NewGroups(General)

\* The stored entries equal to `entry`, and what add_entry(entry) returns.
StoredEqual(entry) == {x \in Range(Target(entry)) : EntryEq(x, entry)}

add_entry_ret(entry) ==
    IF IndexInTarget(entry) = 0
    THEN IF entry.tid = NoTid THEN <<entry.type, Meta(entry.type).id_counter>>
         ELSE entry.tid
    ELSE Target(entry)[IndexInTarget(entry)].tid

\* C1: admitting an entry equal to a stored one returns the tid of the stored
\* entry and changes nothing: the collections, the id counters and every
\* index are as before the call.
C1_IdempotentAdmission ==
    [][\A entry \in Inputs :
          (StoredEqual(entry) # {} /\ AddEntry(entry)) =>
              /\ add_entry_ret(entry) \in {x.tid : x \in StoredEqual(entry)}
              /\ UNCHANGED <<store, internal_metas, basic, structural, coverage>>
      ]_vars

\* Containment as the claims state it: an annotation lies within the span of
\* O; a link does when the annotations stored under its parent and child ids
\* do; a group does when the annotations stored under its member ids do.
Contained(I, O) == I.b >= O.b /\ I.e <= O.e

AnnotationsOf(ids) == {a \in Range(annotations) : a.tid \in ids}

EntryContained(x, O) ==
    IF IsAnnotation(x) THEN Contained(x, O)
    ELSE IF IsLink(x)
    THEN \A a \in AnnotationsOf({x.parent, x.child}) : Contained(a, O)
    ELSE \A a \in AnnotationsOf(x.members) : Contained(a, O)

\* What get_entries(T, R, C) is to yield, and what it yields.
Matching(T, R, C) ==
    {x \in Range(Stored) :
        /\ x.type = T
        /\ C # None => x.comp = C
        /\ R # NoRange => EntryContained(x, R)}

Yielded(T, R, C) ==
    LET g == get_entries(IndexState, T, R, C)
    IN  Range(g.yield) \cup g.found

\* C2: in every state the store can reach by admissions, coverage builds and
\* queries, get_entries(T, R, C) yields exactly the stored entries of type T,
\* of component C (when given) and contained in the span of R (when given).
C2_GetEntriesExact ==
    \A T \in AnnotationTypes \cup LinkTypes \cup GroupTypes,
       R \in RangeArgs, C \in {None} \cup Components :
        get_entries(IndexState, T, R, C).err = "" =>
            Yielded(T, R, C) = Matching(T, R, C)

\* The index a build of (outer, inner) leaves, all lists passed.
Built(outer_type, inner_type) ==
    build_coverage_index(IndexState, annotations, Some(links), Some(groups),
                         outer_type, inner_type).coverage_index[
        <<outer_type, inner_type>>]

\* C3: right after build_coverage_index(outer, inner), for every outer
\* annotation O of outer and every stored annotation I of inner, I.tid is in
\* CoverageIndex[O.tid] iff I.begin >= O.begin and I.end <= O.end.
C3_AnnotationContainment ==
    \A o \in OuterTypes, i \in Classes :
        \A O \in Range(annotations), I \in Range(annotations) :
            (isinstance(O, o) /\ isinstance(I, i)) =>
                (I.tid \in Get(Built(o, i), O.tid) <=> Contained(I, O))

\* C4: right after a build whose inner type accepts links, a link L of the
\* inner type is in CoverageIndex[O.tid] iff its parent annotation and its
\* child annotation are contained in the span of O.
C4_LinkContainment ==
    \A o \in OuterTypes, i \in {"Entry", "Link"} :
        \A O \in Range(annotations), L \in Range(links) :
            (isinstance(O, o) /\ isinstance(L, i)) =>
                (L.tid \in Get(Built(o, i), O.tid) <=> EntryContained(L, O))

\* C5: right after a build whose inner type accepts groups, a group G of the
\* inner type is in CoverageIndex[O.tid] iff every member of G is contained
\* in the span of O; a group without members is in it for every O.
C5_GroupContainment ==
    \A o \in OuterTypes, i \in {"Entry", "Group"} :
        \A O \in Range(annotations), G \in Range(groups) :
            (isinstance(O, o) /\ isinstance(G, i)) =>
                (G.tid \in Get(Built(o, i), O.tid) <=> EntryContained(G, O))

\* The index a build of (outer, inner) from scratch gives on this store.
FromScratch(outer_type, inner_type) ==
    build_coverage_index(
        [IndexState EXCEPT !.coverage_index = EmptyMap,
                           !.coverage_index_switch = EmptyMap],
        annotations, Some(links), Some(groups), outer_type, inner_type
    ).coverage_index[<<outer_type, inner_type>>]

\* C6: the id set get_coverage_index(T1, T2) returns for an outer O of T1
\* through a fallback tier is the id set a build of (T1, T2) from scratch
\* gives for O.
C6_FallbackExact ==
    \A T1 \in OuterTypes, T2 \in Classes :
        LET r == get_coverage_index(IndexState, T1, T2)
        IN  r.key # <<T1, T2>> =>
                \A O \in Range(annotations) :
                    isinstance(O, T1) =>
                        Get(r.st.coverage_index[r.key], O.tid)
                            = Get(FromScratch(T1, T2), O.tid)

\* C7: the annotation collection is sorted by (span.begin, span.end) in every
\* reachable state.
C7_Sorted ==
    \A k \in 1..(Len(annotations) - 1) :
        ~AnnotationLt(annotations[k + 1], annotations[k])

\* Three annotations of three spans, the first in span order being the Token
\* admitted third.
C7_Witness ==
    /\ Len(annotations) = 3
    /\ AnnotationLt(annotations[1], annotations[2])
    /\ AnnotationLt(annotations[2], annotations[3])
    /\ annotations[1].tid = <<"Token", 2>>

\* C8: no two stored entries, of any variant or type, have the same tid.
\* (That the tid of a stored entry never changes holds of every operation:
\* none writes to a stored entry.)
C8_UniqueTid ==
    \A k, m \in DOMAIN Stored : k # m => Stored[k].tid # Stored[m].tid

\* C9: an activation switch that is set stays set, and with the switch set
\* the admission of a new link puts the link under its child and under its
\* parent, the admission of a new group puts it under each of its members.
C9_ActiveStaysActive ==
    [][/\ link_index_switch => link_index_switch'
       /\ group_index_switch => group_index_switch'
       /\ (link_index_switch /\ Len(links') > Len(links)) =>
              LET link == links'[Len(links')]
              IN  /\ link.tid \in Get(link_index'["child_index"], link.child)
                  /\ link.tid \in Get(link_index'["parent_index"], link.parent)
       /\ (group_index_switch /\ Len(groups') > Len(groups)) =>
              LET group == groups'[Len(groups')]
              IN  \A m \in group.members : group.tid \in Get(group_index', m)
      ]_vars

\* Both indexes active, with a link that the cached coverage index of its
\* covering child misses: the link was admitted after the build that
\* required the link index, and is in the link index.
C9_Witness ==
    /\ link_index_switch
    /\ group_index_switch
    /\ \E key \in DOMAIN coverage_index, L \in Range(links) :
           /\ key[2] = "Entry"
           /\ L.tid \in Get(link_index["child_index"], L.child)
           /\ L.tid \in Get(link_index["parent_index"], L.parent)
           /\ L.child = L.parent
           /\ L.child \in DOMAIN coverage_index[key]
           /\ L.tid \notin coverage_index[key][L.child]

\* C10: an active link index holds, under every id, the tids of the stored
\* links having that child / parent; an active group index holds, under every
\* id, the tids of the stored groups having that member.
C10_ActiveIndexExact ==
    /\ link_index_switch =>
           \A a \in AnnotationTids \cup DOMAIN link_index["child_index"]
                                   \cup DOMAIN link_index["parent_index"] :
               /\ Get(link_index["child_index"], a)
                      = {l.tid : l \in {x \in Range(links) : x.child = a}}
               /\ Get(link_index["parent_index"], a)
                      = {l.tid : l \in {x \in Range(links) : x.parent = a}}
    /\ group_index_switch =>
           \A m \in AnnotationTids \cup DOMAIN group_index :
               Get(group_index, m)
                   = {g.tid : g \in {x \in Range(groups) : m \in x.members}}

\* Both indexes active, holding a link and a group with a member.
C10_Witness ==
    /\ link_index_switch
    /\ group_index_switch
    /\ \E l \in Range(links) : l.tid \in Get(link_index["child_index"], l.child)
    /\ \E g \in Range(groups) : \E m \in g.members : g.tid \in Get(group_index, m)

\* The four tiers of get_coverage_index(T1, T2), in the order of the lookup.
TierKeys(T1, T2) ==
    << <<T1, T2>>, <<"Annotation", T2>>, <<T1, "Entry">>, <<"Annotation", "Entry">> >>

CachedTiers(T1, T2) == {n \in 1..4 : Cached(IndexState, TierKeys(T1, T2)[n])}

\* C11: get_coverage_index(T1, T2) returns the first cached index in the
\* order (T1, T2), (Annotation, T2), (T1, Entry), (Annotation, Entry) and
\* then changes nothing; when none of the four is cached it builds and caches
\* the key (T1, T2) and no other key.
C11_TierOrder ==
    \A T1 \in OuterTypes, T2 \in Classes :
        LET r == get_coverage_index(IndexState, T1, T2)
            hits == CachedTiers(T1, T2)
        IN  IF hits # {}
            THEN /\ r.key = TierKeys(T1, T2)[SetMin(hits)]
                 /\ r.st = IndexState
            ELSE /\ r.key = <<T1, T2>>
                 /\ r.st.err = ""
                 /\ DOMAIN r.st.coverage_index
                        = DOMAIN coverage_index \cup {<<T1, T2>>}
                 /\ Cached(r.st, <<T1, T2>>)
                 /\ \A k \in DOMAIN coverage_index \ {<<T1, T2>>} :
                        /\ r.st.coverage_index[k] = coverage_index[k]
                        /\ Cached(r.st, k) = Cached(IndexState, k)

\* (Annotation, Token) and (Sentence, Entry) are both cached and
\* (Sentence, Token) is not: the lookup of (Sentence, Token) has two tiers
\* to choose from.
C11_Witness ==
    /\ CachedTiers("Sentence", "Token") = {2, 3}
    /\ annotations # << >>

\* The entry add_entry(entry) stores: entry with the tid the call returns.
Admitted(entry) == [entry EXCEPT !.tid = add_entry_ret(entry)]

\* C12: the admission of a new entry e leaves entry_index[e.tid] = e, e.tid in
\* type_index[type name of e] and e.tid in component_index[e.component]; and
\* no step removes or replaces a key, a value of entry_index or an id of a set
\* of type_index or component_index.
C12_BasicIndexGrows ==
    [][/\ \A entry \in Inputs :
              (IndexInTarget(entry) = 0 /\ AddEntry(entry)) =>
                  LET e == Admitted(entry)
                  IN  /\ e.tid \in DOMAIN entry_index'
                      /\ entry_index'[e.tid] = e
                      /\ e.tid \in Get(type_index', e.type)
                      /\ e.tid \in Get(component_index', e.comp)
       /\ \A tid \in DOMAIN entry_index :
              tid \in DOMAIN entry_index' /\ entry_index'[tid] = entry_index[tid]
       /\ \A name \in DOMAIN type_index :
              type_index[name] \subseteq Get(type_index', name)
       /\ \A component \in DOMAIN component_index :
              component_index[component] \subseteq Get(component_index', component)
      ]_vars

\* C13: after record_fields(fields, component, entry_type) the entry type has
\* a default component: the one it had when it had one, else the component
\* of this recording.
C13_DefaultComponentSet ==
    \A fields \in SUBSET FieldNames, component \in Components,
       entry_type \in AnnotationTypes :
        LET after == record_fields(internal_metas, fields, component, entry_type)
            before == Meta(entry_type).default_component
        IN  /\ after[entry_type].default_component # None
            /\ after[entry_type].default_component
                   = (IF before # None THEN before ELSE component)

\* The inner types that can include links / groups.
IncludesLinks(inner_type) == inner_type = "Entry" \/ issubclass(inner_type, "Link")
IncludesGroups(inner_type) == inner_type = "Entry" \/ issubclass(inner_type, "Group")

\* C14: build_coverage_index whose inner type can include links (groups)
\* raises ValueError when the link (group) index is inactive and no list of
\* links (groups) is passed; with the list passed the index is activated and
\* filled from the list; with the index active the build needs no list.
C14_MissingIndexInput ==
    \A outer_type \in OuterTypes, inner_type \in Classes,
       ls \in {NoneArg, Some(links)}, gs \in {NoneArg, Some(groups)} :
        LET r == build_coverage_index(IndexState, annotations, ls, gs,
                                      outer_type, inner_type)
            link_missing == /\ IncludesLinks(inner_type)
                            /\ ~link_index_switch /\ ~ls.some
            group_missing == /\ IncludesGroups(inner_type)
                             /\ ~group_index_switch /\ ~gs.some
        IN  /\ (link_missing \/ group_missing) <=> r.err = "ValueError"
            /\ (~link_missing /\ ~group_missing) <=> r.err = ""
            /\ (IncludesLinks(inner_type) /\ ~link_index_switch /\ ls.some) =>
                   /\ r.link_index_switch
                   /\ \A a \in AnnotationTids :
                          /\ Get(r.link_index["child_index"], a)
                                 = {l.tid : l \in {x \in Range(links) : x.child = a}}
                          /\ Get(r.link_index["parent_index"], a)
                                 = {l.tid : l \in {x \in Range(links) : x.parent = a}}
            /\ (IncludesGroups(inner_type) /\ ~group_index_switch /\ gs.some
                    /\ ~link_missing) =>
                   /\ r.group_index_switch
                   /\ \A m \in AnnotationTids :
                          Get(r.group_index, m)
                              = {g.tid : g \in {x \in Range(groups) : m \in x.members}}

\* A coverage build was given the lists: both indexes are active and the
\* cached index holds a link and a group found through them.
C14_Witness ==
    /\ link_index_switch
    /\ group_index_switch
    /\ \E key \in DOMAIN coverage_index :
           \E O \in DOMAIN coverage_index[key] :
               /\ \E L \in Range(links) : L.tid \in coverage_index[key][O]
               /\ \E G \in Range(groups) : G.tid \in coverage_index[key][O]

\* C15: add_entry of an entry that is no Annotation, Link or Group raises
\* ValueError and changes nothing: the collections, the id counters and every
\* index are as before the call.
C15_InvalidEntryKind ==
    [][\A entry \in OtherEntries :
          /\ add_entry_err(entry) = "ValueError"
          /\ AddEntry(entry) =>
                 UNCHANGED <<store, internal_metas, basic, structural, coverage>>
      ]_vars

\* A store with an annotation, a link and a group and both structural
\* indexes active, in which an entry of no variant is refused.
C15_Witness ==
    /\ annotations # << >> /\ links # << >> /\ groups # << >>
    /\ link_index_switch /\ group_index_switch
    /\ \A entry \in OtherEntries :
           add_entry_err(entry) = "ValueError" /\ entry.type \notin DOMAIN internal_metas

\* What a caller may pass as a type: the classes of the ontology, and a class
\* that is no entry type.
TypeArgs == Classes \cup {"str"}

\* C16: build_coverage_index with an outer type that is no subclass of
\* Annotation, or an inner type that is no subclass of Entry, raises TypeError
\* and leaves every index and every activation switch as it was; with an
\* annotation type and an entry type it raises no TypeError.
C16_TypeMismatch ==
    \A outer_type \in TypeArgs, inner_type \in TypeArgs,
       ls \in {NoneArg, Some(links)}, gs \in {NoneArg, Some(groups)} :
        LET r == build_coverage_index(IndexState, annotations, ls, gs,
                                      outer_type, inner_type)
        IN  IF outer_type \in OuterTypes /\ inner_type \in Classes
            THEN r.err # "TypeError"
            ELSE r = [IndexState EXCEPT !.err = "TypeError"]

\* Links and groups are stored and no structural index is active: a build
\* that were to get past the type check with the lists would activate them.
C16_Witness ==
    /\ links # << >> /\ groups # << >>
    /\ ~link_index_switch /\ ~group_index_switch
    /\ build_coverage_index(IndexState, annotations, Some(links), Some(groups),
                            "Link", "Entry").err = "TypeError"
    /\ build_coverage_index(IndexState, annotations, Some(links), Some(groups),
                            "Annotation", "Entry").link_index_switch

\* The number of places of the sequence s that hold x.
Count(s, x) == Cardinality({i \in DOMAIN s : s[i] = x})

\* C17: for an annotation type T, get_entries(T, R, C) yields annotations in
\* non-decreasing order of (begin, end), none more often than it is stored,
\* and every stored annotation of type T, of component C (when given) and
\* contained in R (when given) is among them: none is cut off by the bounds
\* of the slice.
C17_OrderedAndComplete ==
    \A T \in AnnotationTypes, R \in RangeArgs, C \in {None} \cup Components :
        LET g == get_entries(IndexState, T, R, C)
        IN  g.err = "" =>
                /\ \A k \in 1..(Len(g.yield) - 1) :
                       ~AnnotationLt(g.yield[k + 1], g.yield[k])
                /\ \A a \in Range(g.yield) :
                       Count(g.yield, a) <= Count(annotations, a)
                /\ Matching(T, R, C) \subseteq Range(g.yield)

\* s is an initial part of t.
IsPrefix(s, t) == Len(s) <= Len(t) /\ s = SubSeq(t, 1, Len(s))

\* C18: with no admission since the calls, a generator of get_entries yields,
\* in every interleaving with the other generators, what its call yields when
\* consumed alone: at every moment an initial part of it, at its end all of it
\* and the same exception; and a second call with the same arguments yields
\* what the first yields.
C18_NoSharedCursor ==
    /\ \A i \in Iters :
           LET it == iters[i]
           IN  /\ it.pc = "running" => IsPrefix(it.out, it.alone.yield)
               /\ it.pc = "done" =>
                      /\ it.out = it.alone.yield
                      /\ it.err = it.alone.err
    /\ \A T \in AnnotationTypes, R \in RangeArgs, C \in {None} \cup Components :
           LET g == get_entries(IndexState, T, R, C)
               again == get_entries(g.st, T, R, C)
           IN  again.yield = g.yield /\ again.err = g.err

\* C19: a record extraction of an entry type that asks for a field the
\* resolved component was not recorded as having produced for that type
\* raises AttributeError, whatever the store holds.
C19_UnknownField ==
    \A a_type \in AnnotationTypes, component \in {None} \cup Components,
       fields \in SUBSET FieldNames, sent \in SentArgs :
        LET p == process_request_args(a_type, component, fields)
        IN  (/\ p.err = ""
             /\ \E field \in fields :
                    field \notin internal_metas[a_type].fields_created[p.component])
            => generate_annotation_entry_data(a_type, component, fields, sent)
                   = "AttributeError"

\* C20: while the link (group) index is inactive, the admission of a link
\* (group) leaves the index and its switch as they were: only the
\* collection of the entry, the id counter and the basic index change.
C20_InactiveFrame ==
    [][\A entry \in NewLinks(Structural) \cup NewGroups(Structural) :
          AddEntry(entry) =>
              /\ (IsLink(entry) /\ ~link_index_switch) =>
                     UNCHANGED <<link_index, link_index_switch, annotations,
                                 groups, group_index, group_index_switch,
                                 coverage>>
              /\ (IsGroup(entry) /\ ~group_index_switch) =>
                     UNCHANGED <<group_index, group_index_switch, annotations,
                                 links, link_index, link_index_switch,
                                 coverage>>
      ]_vars

\* A link and a group with a member are stored and in the basic index, and
\* neither structural index was touched.
C20_Witness ==
    /\ ~link_index_switch /\ link_index = EmptyMap
    /\ ~group_index_switch /\ group_index = EmptyMap
    /\ \E l \in Range(links) : l.tid \in Get(type_index, "Link")
    /\ \E g \in Range(groups) :
           g.members # {} /\ g.tid \in Get(type_index, "Group")

\* C21: get_entries and get_coverage_index change no entry data: across
\* every call the three collections (and so the tid, component, span, parent,
\* child and members of every entry), the id counters, entry_index and the id
\* sets of type_index and component_index are as before; only the coverage
\* cache and the structural indexes with their switches may change. Stated
\* from the other end: a step that changes any of the entry data is no call
\* of get_entries or get_coverage_index.
C21_QueriesKeepEntryData ==
    [][~(/\ UNCHANGED <<store, internal_metas, entry_index>>
         /\ \A name \in Classes :
                Get(type_index', name) = Get(type_index, name)
         /\ \A component \in Components :
                Get(component_index', component)
                    = Get(component_index, component))
          => ~(GetEntries(Structural) \/ GetCoverageIndex(Structural))
      ]_vars

\* A query has built and cached an index of links or of groups, which took
\* the active structural index, and a stored link or group that an outer
\* annotation of the index does not cover is still in the type index.
C21_Witness ==
    \E key \in DOMAIN coverage_index :
        /\ key[2] \in {"Link", "Group"}
        /\ Cached(IndexState, key)
        /\ key[2] = "Link" => link_index_switch
        /\ key[2] = "Group" => group_index_switch
        /\ \E O \in DOMAIN coverage_index[key],
              x \in Range(links) \cup Range(groups) :
               /\ x.type = key[2]
               /\ x.tid \notin coverage_index[key][O]
               /\ x.tid \in Get(type_index, key[2])
               /\ entry_index[x.tid] = x

\* C22: update_link_index (update_group_index) is idempotent: applied twice
\* to the same list it leaves what one application leaves, and applied to an
\* active index with any part of the store's links (groups), all of them
\* indexed already, it leaves the index and the switch as they were.
C22_RebuildIdempotent ==
    /\ LET once == update_link_index(link_index, links)
       IN  update_link_index(once, links) = once
    /\ LET once == update_group_index(group_index, groups)
       IN  update_group_index(once, groups) = once
    /\ link_index_switch =>
           \A i, j \in 0..Len(links) :
               update_link_index(link_index, SubSeq(links, i + 1, j)) = link_index
    /\ group_index_switch =>
           \A i, j \in 0..Len(groups) :
               update_group_index(group_index, SubSeq(groups, i + 1, j))
                   = group_index

\* Both indexes are active and not empty: the link index files a stored link
\* under its parent, the group index a stored group under a member.
C22_Witness ==
    /\ link_index_switch /\ group_index_switch
    /\ \E l \in Range(links) :
           l.tid \in Get(link_index["parent_index"], l.parent)
    /\ \E g \in Range(groups) :
           g.members # {} /\ \A m \in g.members : g.tid \in Get(group_index, m)
    /\ update_link_index(link_index, links) = link_index
    /\ update_group_index(group_index, groups) = group_index

\* The condition on which add_covered_entries leaves its loop at the
\* candidate inner: the candidate is not in the span of outer and the two
\* have no overlap.
StopCondition(outer, inner) ==
    ~in_span(entry_index, inner, outer) /\ ~have_overlap(outer, inner)

C24_FailedBuildChangesNothing ==
    \A outer_type \in TypeArgs, inner_type \in TypeArgs,
       ls \in {NoneArg, Some(links)}, gs \in {NoneArg, Some(groups)} :
        LET r == build_coverage_index(IndexState, annotations, ls, gs,
                                      outer_type, inner_type)
        IN  r.err \in {"TypeError", "ValueError"} =>
                r = [IndexState EXCEPT !.err = r.err]

\* The ids the indexes hold: those of type_index and component_index, the
\* covered ids of the cached coverage indexes, the link ids of the link
\* index and the group ids of the group index.
IndexedIds ==
    UNION {type_index[name] : name \in DOMAIN type_index}
    \cup UNION {component_index[c] : c \in DOMAIN component_index}
    \cup UNION {Get(coverage_index[key], O) :
                   key \in {k \in DOMAIN coverage_index : Cached(IndexState, k)},
                   O \in UNION {DOMAIN coverage_index[k] :
                                   k \in DOMAIN coverage_index}}
    \cup UNION {Get(link_index[k], a) :
                   k \in DOMAIN link_index,
                   a \in UNION {DOMAIN link_index[j] : j \in DOMAIN link_index}}
    \cup UNION {group_index[m] : m \in DOMAIN group_index}

\* C25: every id an index holds is a key of entry_index whose entry is in
\* exactly one of the three collections, and every stored entry is the value
\* of entry_index under its own tid.
C25_IndexesReferToStore ==
    /\ \A id \in IndexedIds :
           /\ id \in DOMAIN entry_index
           /\ Cardinality({n \in 1..3 : entry_index[id] \in Range(store[n])}) = 1
    /\ \A x \in Range(Stored) :
           x.tid \in DOMAIN entry_index /\ entry_index[x.tid] = x

\* build_coverage_index(outer_type, inner_type) with the lists of the store,
\* on the index state st.
Rebuild(st, outer_type, inner_type) ==
    build_coverage_index(st, annotations, Some(links), Some(groups),
                         outer_type, inner_type)

\* C26: a key of the coverage cache that is marked as cached stays so and no
\* covered-id set loses an id, whatever the operation; a build of a cached
\* key leaves the mapping a build from scratch gives on the current store,
\* and the same build once more, nothing admitted in between, leaves the
\* mapping as it is.
C26_CacheMonotone ==
    [][/\ \A key \in DOMAIN coverage_index_switch :
              Cached(IndexState, key) =>
                  /\ key \in DOMAIN coverage_index_switch'
                  /\ coverage_index_switch'[key]
       /\ \A key \in DOMAIN coverage_index :
              /\ key \in DOMAIN coverage_index'
              /\ \A O \in DOMAIN coverage_index[key] :
                     coverage_index[key][O] \subseteq Get(coverage_index'[key], O)
       /\ \A outer_type \in OuterTypes, inner_type \in Classes :
              Cached(IndexState, <<outer_type, inner_type>>) =>
                  LET key == <<outer_type, inner_type>>
                      r == Rebuild(IndexState, outer_type, inner_type)
                      again == Rebuild(r, outer_type, inner_type)
                  IN  /\ r.err = ""
                      /\ \A O \in AnnotationTids :
                             /\ Get(r.coverage_index[key], O)
                                    = Get(FromScratch(outer_type, inner_type), O)
                             /\ Get(again.coverage_index[key], O)
                                    = Get(r.coverage_index[key], O)
      ]_vars

\* C27: right after build_coverage_index(outer, inner) every outer annotation
\* O that is an instance of outer and of inner has its own tid in
\* CoverageIndex[O.tid], and get_entries(type of R, R), called on the index
\* just built for the type of a stored annotation R, yields R.
C27_CoverageReflexive ==
    /\ \A outer_type \in OuterTypes, inner_type \in Classes :
           \A O \in Range(annotations) :
               (isinstance(O, outer_type) /\ isinstance(O, inner_type)) =>
                   O.tid \in Get(Built(outer_type, inner_type), O.tid)
    /\ \A R \in Range(annotations) :
           LET g == get_entries(Rebuild(IndexState, R.type, R.type),
                                R.type, R, None)
           IN  g.err = "" /\ R \in Range(g.yield)

====
